---- MODULE Spec2Model ----
(***************************************************************************)
(* Model of countertrade-bot (src/countertrade.ts): the order-event       *)
(* classifier, the counter-quantity sizing arithmetic, the counter-order  *)
(* construction, and the asynchronous update handler that ties them to    *)
(* the exchange and notification calls.                                   *)
(*                                                                         *)
(* Numbers are JavaScript numbers restricted to the non-negative values   *)
(* the program computes with: a finite non-negative rational n/d, +Inf or *)
(* NaN.  Finite arithmetic is exact (binary rounding error is not         *)
(* modelled); division by zero, Inf and NaN follow IEEE-754 as JavaScript *)
(* does.                                                                  *)
(***************************************************************************)
EXTENDS Integers, Sequences, FiniteSets, Bags, TLC

\* bounds of the model
MaxEvents == 2   \* order events the subscription delivers, over all batches

VARIABLES
  probe,          \* input and result of one call of a pure function
  env,            \* process.env: the names that are set
  sink,           \* the notification channel: "unreliable" or "down"
  feed,           \* the order events the trading account produces in this run
  proc,           \* the process: starting, running or exited (with its cause)
  cfb,            \* where checkFetchBalances() is suspended
  handlers,       \* bag of the suspended invocations of the update listener
  delivered,      \* number of order events delivered so far
  counterOrders,  \* update events of the counter-orders the exchange received
  echoesSeen,     \* events tagged counter_ that respondToOrder was applied to
  rejection,      \* the latest listener invocation that ended by rejecting
  ended           \* the latest placeCounterOrder that returned

vars == <<probe, env, sink, feed, proc, cfb, handlers, delivered,
          counterOrders, echoesSeen, rejection, ended>>

\* ------------------------------------------------------------------------
\* JavaScript numbers
\* ------------------------------------------------------------------------

RECURSIVE GCD(_, _)
GCD(a, b) == IF b = 0 THEN a ELSE GCD(b, a % b)

\* the finite number n/d (n >= 0, d > 0) in lowest terms
Fin(n, d) ==
  LET g == GCD(n, d) IN [k |-> "fin", n |-> n \div g, d |-> d \div g]

PosInf == [k |-> "inf", n |-> 1, d |-> 1]

NaN == [k |-> "nan", n |-> 0, d |-> 1]

Zero == Fin(0, 1)

\* a / b
JsDiv(a, b) ==
  IF a.k = "nan" \/ b.k = "nan" THEN NaN
  ELSE IF a.k = "inf" THEN (IF b.k = "inf" THEN NaN ELSE PosInf)
  ELSE IF b.k = "inf" THEN Zero
  ELSE IF b.n = 0 THEN (IF a.n = 0 THEN NaN ELSE PosInf)
  ELSE Fin(a.n * b.d, a.d * b.n)

\* a * b
JsMul(a, b) ==
  IF a.k = "nan" \/ b.k = "nan" THEN NaN
  ELSE IF a.k = "inf" THEN (IF b.k = "fin" /\ b.n = 0 THEN NaN ELSE PosInf)
  ELSE IF b.k = "inf" THEN (IF a.n = 0 THEN NaN ELSE PosInf)
  ELSE Fin(a.n * b.n, a.d * b.d)

\* a < b (false whenever either side is NaN)
JsLt(a, b) ==
  IF a.k = "nan" \/ b.k = "nan" THEN FALSE
  ELSE IF a.k = "inf" THEN FALSE
  ELSE IF b.k = "inf" THEN TRUE
  ELSE a.n * b.d < b.n * a.d

\* a <= b
JsLe(a, b) ==
  IF a.k = "nan" \/ b.k = "nan" THEN FALSE
  ELSE IF b.k = "inf" THEN TRUE
  ELSE IF a.k = "inf" THEN FALSE
  ELSE a.n * b.d <= b.n * a.d

\* Math.min(a, b): NaN if either argument is NaN
MathMin(a, b) ==
  IF a.k = "nan" \/ b.k = "nan" THEN NaN
  ELSE IF JsLt(b, a) THEN b ELSE a

\* Math.max(a, b): NaN if either argument is NaN
MathMax(a, b) ==
  IF a.k = "nan" \/ b.k = "nan" THEN NaN
  ELSE IF JsLt(a, b) THEN b ELSE a

\* Math.round(a): nearest integer, ties towards +Inf
MathRound(a) ==
  IF a.k # "fin" THEN a ELSE Fin((2 * a.n + a.d) \div (2 * a.d), 1)

\* Math.ceil(a)
MathCeil(a) ==
  IF a.k # "fin" THEN a ELSE Fin((a.n + a.d - 1) \div a.d, 1)

\* a is a whole number of times s (a, s finite, s > 0)
IsMultipleOf(a, s) ==
  /\ a.k = "fin" /\ s.k = "fin" /\ s.n > 0
  /\ (a.n * s.d) % (a.d * s.n) = 0

\* ------------------------------------------------------------------------
\* Decimal text as the exchange sends it: "" or the decimal text of n/d
\* ------------------------------------------------------------------------

EmptyText == [empty |-> TRUE, n |-> 0, d |-> 1]

Dec(n, d) == [empty |-> FALSE, n |-> n, d |-> d]

\* Number(s) and unary +s: the empty string converts to 0
ToNumber(s) == IF s.empty THEN Zero ELSE Fin(s.n, s.d)

\* Number.parseFloat(s): the empty string converts to NaN
ParseFloat(s) == IF s.empty THEN NaN ELSE Fin(s.n, s.d)

\* ------------------------------------------------------------------------
\* Strings that are inspected character by character
\* ------------------------------------------------------------------------

CounterPrefix == <<"c", "o", "u", "n", "t", "e", "r", "_">>

\* s.startsWith(p)
StartsWith(s, p) == Len(s) >= Len(p) /\ SubSeq(s, 1, Len(p)) = p

\* ------------------------------------------------------------------------
\* Event classifier
\* ------------------------------------------------------------------------

OrderStatusToRespondTo == {"New", "Filled", "PartiallyFilled", "Created"}

\* mutant: the link-identifier test is left out
respondToOrder_noPrefixTest(orderData) ==
  /\ orderData.orderStatus \in OrderStatusToRespondTo
  /\ orderData.createType = "CreateByUser"

respondToOrder(orderData) ==
  /\ orderData.orderStatus \in OrderStatusToRespondTo
  /\ orderData.createType = "CreateByUser"
  /\ ~StartsWith(orderData.orderLinkId, CounterPrefix)

\* ------------------------------------------------------------------------
\* Counter-quantity sizing (the arithmetic of placeCounterOrder)
\* ------------------------------------------------------------------------

\* tradeValue / tradingAccountBalance.equity
marginPercentage(orderData, tradingEquity) ==
  JsDiv(ParseFloat(orderData.cumExecValue), tradingEquity)

\* mutant: the executed value is taken over without scaling by the equities
counterTradeValue_unscaled(orderData, tradingEquity, counterEquity) ==
  ParseFloat(orderData.cumExecValue)

\* countertradeAccountBalance.equity * marginPercentage
counterTradeValue(orderData, tradingEquity, counterEquity) ==
  JsMul(counterEquity, marginPercentage(orderData, tradingEquity))

\* counterTradeValue / +orderData.price
initialCounterQty(orderData, tradingEquity, counterEquity) ==
  JsDiv(counterTradeValue(orderData, tradingEquity, counterEquity),
        ToNumber(orderData.price))

\* Math.round(initialCounterQty / step) * step
steppedCounterQty(initialQty, step) ==
  JsMul(MathRound(JsDiv(initialQty, step)), step)

\* Math.max(minQty, Math.min(maxQty, qty))
boundedCounterQty(qty, minQty, maxQty) ==
  MathMax(minQty, MathMin(maxQty, qty))

\* the market-order limit
marketAdjustedCounterQty(orderData, boundedQty, maxMarketQty) ==
  IF orderData.orderType = "Market"
    THEN MathMin(boundedQty, maxMarketQty)
    ELSE boundedQty

\* mutant: the adjustment rounds to the nearest step
minNotionalAdjustedCounterQty_rounded(orderData, marketQty, minNotional, step) ==
  LET price == ToNumber(orderData.price)
      notionalValue == JsMul(marketQty, price)
  IN  IF JsLt(notionalValue, minNotional)
        THEN JsMul(MathRound(JsDiv(JsDiv(minNotional, price), step)), step)
        ELSE marketQty

\* the minimum-notional adjustment
minNotionalAdjustedCounterQty(orderData, marketQty, minNotional, step) ==
  LET price == ToNumber(orderData.price)
      notionalValue == JsMul(marketQty, price)
  IN  IF JsLt(notionalValue, minNotional)
        THEN JsMul(MathCeil(JsDiv(JsDiv(minNotional, price), step)), step)
        ELSE marketQty

\* mutant: the closing clamp into [minQty, maxQty] is left out
finalCounterQty_noFinalClamp(orderData, tradingEquity, counterEquity, lotSizeFilter) ==
  LET maxQty == ToNumber(lotSizeFilter.maxOrderQty)
      minQty == ToNumber(lotSizeFilter.minOrderQty)
      step == ToNumber(lotSizeFilter.qtyStep)
      maxMarketQty == ToNumber(lotSizeFilter.maxMktOrderQty)
      minNotional == ToNumber(lotSizeFilter.minNotionalValue)
      initial == initialCounterQty(orderData, tradingEquity, counterEquity)
      stepped == steppedCounterQty(initial, step)
      bounded == boundedCounterQty(stepped, minQty, maxQty)
      market == marketAdjustedCounterQty(orderData, bounded, maxMarketQty)
  IN  minNotionalAdjustedCounterQty(orderData, market, minNotional, step)

\* the quantity placeCounterOrder arrives at
finalCounterQty(orderData, tradingEquity, counterEquity, lotSizeFilter) ==
  LET maxQty == ToNumber(lotSizeFilter.maxOrderQty)
      minQty == ToNumber(lotSizeFilter.minOrderQty)
      step == ToNumber(lotSizeFilter.qtyStep)
      maxMarketQty == ToNumber(lotSizeFilter.maxMktOrderQty)
      minNotional == ToNumber(lotSizeFilter.minNotionalValue)
      initial == initialCounterQty(orderData, tradingEquity, counterEquity)
      stepped == steppedCounterQty(initial, step)
      bounded == boundedCounterQty(stepped, minQty, maxQty)
      market == marketAdjustedCounterQty(orderData, bounded, maxMarketQty)
      adjusted == minNotionalAdjustedCounterQty(orderData, market, minNotional, step)
  IN  MathMax(minQty, MathMin(maxQty, adjusted))

\* ------------------------------------------------------------------------
\* Serialising the quantity
\* ------------------------------------------------------------------------

RECURSIVE Pow10(_)
Pow10(e) == IF e <= 0 THEN 1 ELSE 10 * Pow10(e - 1)

\* floor(log10(n/d)) for n/d >= 1
RECURSIVE FloorLog10Up(_, _)
FloorLog10Up(n, d) == IF n >= 10 * d THEN 1 + FloorLog10Up(n, 10 * d) ELSE 0

\* floor(log10(n/d)) for 0 < n/d
RECURSIVE FloorLog10(_, _)
FloorLog10(n, d) ==
  IF n >= d THEN FloorLog10Up(n, d) ELSE FloorLog10(10 * n, d) - 1

\* -Math.floor(Math.log10(step)): an integer, or Infinity / NaN
getDecimalPlaces(step) ==
  IF step.k = "nan" THEN [k |-> "nan", v |-> 0]
  ELSE IF step.k = "inf" THEN [k |-> "neginf", v |-> 0]
  ELSE IF step.n = 0 THEN [k |-> "inf", v |-> 0]
  ELSE [k |-> "int", v |-> 0 - FloorLog10(step.n, step.d)]

RangeError == [k |-> "RangeError", n |-> 0, d |-> 1]

\* x.toFixed(digits): the decimal text with `digits` fractional digits
\* (ties away from zero), "NaN", "Infinity", or a RangeError when digits is
\* outside 0..100
ToFixed(x, digits) ==
  IF digits.k \in {"inf", "neginf"} THEN RangeError
  ELSE LET f == IF digits.k = "nan" THEN 0 ELSE digits.v
       IN  IF f < 0 \/ f > 100 THEN RangeError
           ELSE IF x.k = "nan" THEN [k |-> "NaN", n |-> 0, d |-> 1]
           ELSE IF x.k = "inf" THEN [k |-> "Infinity", n |-> 0, d |-> 1]
           ELSE [k |-> "dec",
                 n |-> (2 * x.n * Pow10(f) + x.d) \div (2 * x.d),
                 d |-> Pow10(f)]

\* finalCounterQty.toFixed(getDecimalPlaces(step))
counterQtyString(finalQty, lotSizeFilter) ==
  ToFixed(finalQty, getDecimalPlaces(ToNumber(lotSizeFilter.qtyStep)))

\* ------------------------------------------------------------------------
\* Counter-order construction
\* ------------------------------------------------------------------------

Undefined == [defined |-> FALSE, text |-> EmptyText]

Defined(text) == [defined |-> TRUE, text |-> text]

\* mutant: the side is copied
counterSide_copied(orderData) == orderData.side

\* Buy becomes Sell, and vice versa
counterSide(orderData) == IF orderData.side = "Buy" THEN "Sell" ELSE "Buy"

\* mutant: the price is copied whatever the order type
counterPrice_always(orderData) == Defined(orderData.price)

\* the price travels with Limit orders only
counterPrice(orderData) ==
  IF orderData.orderType = "Limit" THEN Defined(orderData.price) ELSE Undefined

\* mutant: the link identifier is the original order's identifier
counterOrderLinkId_untagged(orderData) == orderData.orderId

\* mutant: the tag is followed by the original order's link identifier
counterOrderLinkId_byLinkId(orderData) == CounterPrefix \o orderData.orderLinkId

\* `counter_${orderData.orderId}`
counterOrderLinkId(orderData) == CounterPrefix \o orderData.orderId

counterOrder(orderData, qtyString) ==
  [category |-> "linear",
   symbol |-> orderData.symbol,
   side |-> counterSide(orderData),
   orderType |-> orderData.orderType,
   qty |-> qtyString,
   price |-> counterPrice(orderData),
   takeProfit |-> orderData.stopLoss,
   stopLoss |-> orderData.takeProfit,
   positionIdx |-> orderData.positionIdx,
   timeInForce |-> orderData.timeInForce,
   reduceOnly |-> FALSE,
   closeOnTrigger |-> FALSE,
   tpslMode |-> "Partial",
   orderLinkId |-> counterOrderLinkId(orderData)]

\* ------------------------------------------------------------------------
\* Exchange responses and the two lookups that interpret them
\* ------------------------------------------------------------------------

\* mutant: a balance that could not be fetched is taken to be 0
getBalanceOfCoin_neverNull(response) ==
  IF response.k = "ret" /\ response.retCode = 0 /\ response.listLen > 0
       /\ response.coinFound
    THEN [isNull |-> FALSE, equity |-> ToNumber(response.equity), site |-> "none"]
    ELSE [isNull |-> FALSE, equity |-> Zero, site |-> "none"]

\* getBalanceOfCoin: the balance, or null after logging why
getBalanceOfCoin(response) ==
  IF response.k = "throw"
    THEN [isNull |-> TRUE, equity |-> Zero, site |-> "balance:exception"]
  ELSE IF response.retCode # 0
    THEN [isNull |-> TRUE, equity |-> Zero, site |-> "balance:retCode"]
  ELSE IF response.listLen = 0   \* list[0] is undefined: the TypeError is caught
    THEN [isNull |-> TRUE, equity |-> Zero, site |-> "balance:exception"]
  ELSE IF ~response.coinFound
    THEN [isNull |-> TRUE, equity |-> Zero, site |-> "balance:coinNotFound"]
  ELSE [isNull |-> FALSE, equity |-> ToNumber(response.equity), site |-> "none"]

\* getSymbolInfo: the first instrument of the list, or the error thrown again
getSymbolInfo(response) ==
  IF response.k = "ret" /\ response.retCode = 0 /\ Len(response.list) > 0
    THEN [threw |-> FALSE, info |-> <<response.list[1]>>]
    ELSE [threw |-> TRUE, info |-> << >>]

InsufficientBalance == 110007

\* ------------------------------------------------------------------------
\* What the exchange may send
\* ------------------------------------------------------------------------

Event(orderId, orderLinkId, orderStatus, createType, side, orderType, price, cumExecValue, takeProfit, stopLoss) ==
  [orderId |-> orderId, orderLinkId |-> orderLinkId,
   orderStatus |-> orderStatus, createType |-> createType,
   symbol |-> "BTCUSDT", side |-> side, orderType |-> orderType,
   price |-> price, cumExecValue |-> cumExecValue,
   takeProfit |-> takeProfit, stopLoss |-> stopLoss,
   positionIdx |-> 0, timeInForce |-> "GTC"]

LimitOrderEvent ==
  Event(<<"a">>, << >>, "New", "CreateByUser", "Buy", "Limit",
        Dec(10, 1), Dec(500, 1), Dec(12, 1), Dec(9, 1))

\* a Market order's event carries no price
MarketOrderEvent ==
  Event(<<"b">>, << >>, "Filled", "CreateByUser", "Sell", "Market",
        EmptyText, Dec(500, 1), EmptyText, EmptyText)

CancelledOrderEvent ==
  Event(<<"c">>, << >>, "Cancelled", "CreateByUser", "Buy", "Limit",
        Dec(10, 1), Dec(0, 1), EmptyText, EmptyText)

\* the runs differ in the order the trading account places
Feeds ==
  { {LimitOrderEvent, CancelledOrderEvent},
    {MarketOrderEvent, CancelledOrderEvent} }

\* the update event the exchange emits for a counter-order it received
EchoEvent(order) ==
  [orderId |-> <<"x">>, orderLinkId |-> order.orderLinkId,
   orderStatus |-> "New", createType |-> "CreateByUser",
   symbol |-> order.symbol, side |-> order.side, orderType |-> order.orderType,
   price |-> order.price.text, cumExecValue |-> Dec(0, 1),
   takeProfit |-> order.takeProfit, stopLoss |-> order.stopLoss,
   positionIdx |-> order.positionIdx, timeInForce |-> order.timeInForce]

\* the batches the next update may carry
Batches ==
  UNION { [1..n -> feed \cup counterOrders] : n \in 1..(MaxEvents - delivered) }

BalanceResponse(k, retCode, listLen, coinFound, equity) ==
  [k |-> k, retCode |-> retCode, listLen |-> listLen,
   coinFound |-> coinFound, equity |-> equity]

BalanceResponses ==
  { BalanceResponse("throw", 0, 0, FALSE, EmptyText),
    BalanceResponse("ret", 10001, 0, FALSE, EmptyText),
    BalanceResponse("ret", 0, 0, FALSE, EmptyText),
    BalanceResponse("ret", 0, 1, FALSE, EmptyText),
    BalanceResponse("ret", 0, 1, TRUE, Dec(0, 1)),
    BalanceResponse("ret", 0, 1, TRUE, Dec(10000, 1)) }

LotSizeFilter(maxOrderQty, minOrderQty, qtyStep, maxMktOrderQty, minNotionalValue) ==
  [maxOrderQty |-> maxOrderQty, minOrderQty |-> minOrderQty,
   qtyStep |-> qtyStep, maxMktOrderQty |-> maxMktOrderQty,
   minNotionalValue |-> minNotionalValue]

StreamLotSizeFilters ==
  { LotSizeFilter(Dec(100, 1), Dec(1, 10), Dec(1, 10), Dec(50, 1), Dec(5, 1)),
    LotSizeFilter(Dec(100, 1), Dec(10, 1), Dec(10, 1), Dec(50, 1), Dec(5, 1)) }

SymbolInfoResponses ==
  { [k |-> "throw", retCode |-> 0, list |-> << >>],
    [k |-> "ret", retCode |-> 10001, list |-> << >>],
    [k |-> "ret", retCode |-> 0, list |-> << >>] }
  \cup { [k |-> "ret", retCode |-> 0, list |-> <<[lotSizeFilter |-> f]>>] :
           f \in StreamLotSizeFilters }

SubmitResponses ==
  { [k |-> "throw", retCode |-> 0],
    [k |-> "ret", retCode |-> 0],
    [k |-> "ret", retCode |-> InsufficientBalance],
    [k |-> "ret", retCode |-> 10001] }

\* ------------------------------------------------------------------------
\* The process
\* ------------------------------------------------------------------------

Credentials ==
  { "TRADING_SUBACCOUNT_API_KEY", "TRADING_SUBACCOUNT_API_SECRET",
    "COUNTERTRADING_SUBACCOUNT_API_KEY", "COUNTERTRADING_SUBACCOUNT_API_SECRET" }

\* the environments told apart: any credentials, and the Telegram token with
\* or without its channel
Envs ==
  { c \cup t : c \in SUBSET Credentials,
               t \in { {}, {"TELEGRAM_BOT_TOKEN"},
                       {"TELEGRAM_BOT_TOKEN", "TELEGRAM_CHANNEL_ID"} } }

\* TELEGRAM_ENABLED && bot
TelegramOn == "TELEGRAM_BOT_TOKEN" \in env

Starting == [state |-> "starting", code |-> 0, cause |-> "none"]

Running == [state |-> "running", code |-> 0, cause |-> "none"]

Exited(code, cause) == [state |-> "exited", code |-> code, cause |-> cause]

\* an invocation of the listener suspended at `pc` while mirroring `orderData`
Handler(pc, orderData, rest, made) ==
  [pc |-> pc, cur |-> orderData, rest |-> rest, made |-> made,
   tradingEquity |-> Zero, counterEquity |-> Zero, pending |-> << >>,
   fetched |-> << >>, response |-> << >>]

Put(bag, hr) == bag (+) SetToBag({hr})

Take(bag, hr) == bag (-) SetToBag({hr})

\* index of the first event of the batch, from i on, that is to be mirrored
RECURSIVE firstRespondIdx(_, _)
firstRespondIdx(batch, i) ==
  IF i > Len(batch) THEN i
  ELSE IF respondToOrder(batch[i]) THEN i
  ELSE firstRespondIdx(batch, i + 1)

\* The listener's for-loop over `batch`, run up to its first suspension (or
\* to its end: live = FALSE), and the counter_-tagged events it classified.
ListenerLoop(batch) ==
  LET i == firstRespondIdx(batch, 1)
      last == IF i > Len(batch) THEN Len(batch) ELSE i
      echoes == { e \in { batch[j] : j \in 1..last } :
                    StartsWith(e.orderLinkId, CounterPrefix) }
      rest == SubSeq(batch, i + 1, Len(batch))
  IN  IF i > Len(batch)
        THEN [live |-> FALSE, echoes |-> echoes,
              handler |-> Handler("done", CancelledOrderEvent, << >>, << >>)]
      ELSE IF TelegramOn
        THEN [live |-> TRUE, echoes |-> echoes,
              handler |-> Handler("awaitDetectedNotify", batch[i], rest,
                                  <<"sendMessage:detected">>)]
        ELSE [live |-> TRUE, echoes |-> echoes,
              handler |-> Handler("awaitTradingBalance", batch[i], rest,
                                  <<"getWalletBalance:trading">>)]

\* the invocation hr goes on as hr2
Step(hr, hr2) == handlers' = Put(Take(handlers, hr), hr2)

\* placeCounterOrder returned in invocation hr: the loop takes the next event
ReturnToLoop(hr) ==
  LET r == ListenerLoop(hr.rest)
  IN  /\ handlers' = IF r.live THEN Put(Take(handlers, hr), r.handler)
                               ELSE Take(handlers, hr)
      /\ echoesSeen' = echoesSeen \cup r.echoes

\* placeCounterOrder threw in invocation hr: the listener's promise is
\* rejected and nothing handles it; the runtime ends the process or goes on
RejectListener(hr, cause) ==
  /\ rejection' = <<[orderData |-> hr.cur, unreached |-> hr.rest, cause |-> cause]>>
  /\ \E ends \in BOOLEAN :
       IF ends THEN /\ proc' = Exited(1, "unhandledRejection")
                    /\ handlers' = EmptyBag
               ELSE /\ proc' = proc
                    /\ handlers' = Take(handlers, hr)

\* what is kept of a placeCounterOrder that returned: the calls it made, what
\* its balance fetches and its submission met, and the levels at which it
\* logged how it ended
Ended(hr, levels) ==
  [made |-> hr.made, fetched |-> hr.fetched, response |-> hr.response,
   levels |-> levels]

\* the exchange provided the coin's balance
BalanceProvided(response) ==
  /\ response.k = "ret" /\ response.retCode = 0
  /\ response.listLen > 0 /\ response.coinFound

\* the outcomes an attempt to deliver a notification may have
SinkOutcomes == IF sink = "down" THEN {FALSE} ELSE BOOLEAN

\* mutant: a failed delivery is not caught
sendTelegramMessage_uncaught(sent) == [threw |-> ~sent]

\* sendTelegramMessage: a failed delivery is caught and logged
sendTelegramMessage(sent) == [threw |-> FALSE]

\* mutant: the insufficient-balance code is logged as an error
submitOutcome_errorLevel(response) ==
  IF response.k = "throw"
    THEN [levels |-> <<"error">>, notify |-> "error"]
  ELSE IF response.retCode = InsufficientBalance
    THEN [levels |-> <<"error">>, notify |-> "none"]
  ELSE [levels |-> <<"info", "info", "info">>, notify |-> "placed"]

\* the try / switch / catch around submitOrder: the levels logged and the
\* notification sent for each outcome
submitOutcome(response) ==
  IF response.k = "throw"
    THEN [levels |-> <<"error">>, notify |-> "error"]
  ELSE IF response.retCode = InsufficientBalance
    THEN [levels |-> <<"warn">>, notify |-> "none"]
  ELSE [levels |-> <<"info", "info", "info">>, notify |-> "placed"]

Init ==
  /\ probe = [fn |-> "none"]
  /\ env \in Envs
  /\ sink = "unreliable"
  /\ feed \in Feeds
  /\ proc = Starting
  /\ cfb = "idle"
  /\ handlers = EmptyBag
  /\ delivered = 0
  /\ counterOrders = {}
  /\ echoesSeen = {}
  /\ rejection = << >>
  /\ ended = << >>

\* The top-level script, up to its end: the credential checks, the Telegram
\* set-up, the call of checkFetchBalances() and the registrations.
Startup ==
  /\ proc.state = "starting"
  /\ IF ~(Credentials \subseteq env)
       THEN /\ proc' = Exited(1, "config")
            /\ cfb' = cfb
     ELSE IF "TELEGRAM_BOT_TOKEN" \in env /\ "TELEGRAM_CHANNEL_ID" \notin env
       THEN /\ proc' = Exited(1, "config")
            /\ cfb' = cfb
     ELSE /\ proc' = Running
          /\ cfb' = "awaitTradingBalance"
  /\ UNCHANGED <<probe, env, sink, feed, handlers, delivered, counterOrders,
                 echoesSeen, rejection, ended>>

\* checkFetchBalances(): the first balance arrives, the second is requested
CheckFetchTrading ==
  /\ proc.state = "running"
  /\ cfb = "awaitTradingBalance"
  /\ \E response \in BalanceResponses : cfb' = "awaitCounterBalance"
  /\ UNCHANGED <<probe, env, sink, feed, proc, handlers, delivered,
                 counterOrders, echoesSeen, rejection, ended>>

\* checkFetchBalances(): the second balance arrives; process.exit(0)
CheckFetchCounter ==
  /\ proc.state = "running"
  /\ cfb = "awaitCounterBalance"
  /\ \E response \in BalanceResponses : cfb' = "done"
  /\ proc' = Exited(0, "checkFetchBalances")
  /\ handlers' = EmptyBag
  /\ UNCHANGED <<probe, env, sink, feed, delivered, counterOrders, echoesSeen,
                 rejection, ended>>

\* process.on("SIGINT")
Sigint ==
  /\ proc.state = "running"
  /\ proc' = Exited(0, "SIGINT")
  /\ handlers' = EmptyBag
  /\ UNCHANGED <<probe, env, sink, feed, cfb, delivered, counterOrders,
                 echoesSeen, rejection, ended>>

\* tradingWsClient emits "update": a new invocation of the listener runs up
\* to its first suspension
Update ==
  /\ proc.state = "running"
  /\ delivered < MaxEvents
  /\ \E batch \in Batches :
       LET r == ListenerLoop(batch)
       IN  /\ handlers' = IF r.live THEN Put(handlers, r.handler) ELSE handlers
           /\ echoesSeen' = echoesSeen \cup r.echoes
           /\ delivered' = delivered + Len(batch)
  /\ UNCHANGED <<probe, env, sink, feed, proc, cfb, counterOrders, rejection,
                 ended>>

\* sendTelegramMessage (order detected) settles, whether it succeeded or
\* not; placeCounterOrder starts
DetectedNotified(hr) ==
  /\ proc.state = "running"
  /\ hr.pc = "awaitDetectedNotify"
  /\ \E sent \in SinkOutcomes :
       IF sendTelegramMessage(sent).threw
         THEN RejectListener(hr, "sendTelegramMessage")
         ELSE /\ Step(hr, [hr EXCEPT !.pc = "awaitTradingBalance",
                                     !.made = Append(@, "getWalletBalance:trading")])
              /\ UNCHANGED <<proc, rejection>>
  /\ UNCHANGED <<probe, env, sink, feed, cfb, delivered, counterOrders,
                 echoesSeen, ended>>

\* the trading account's balance arrives
TradingBalance(hr) ==
  /\ proc.state = "running"
  /\ hr.pc = "awaitTradingBalance"
  /\ \E response \in BalanceResponses :
       LET balance == getBalanceOfCoin(response)
           got == [hr EXCEPT !.fetched = Append(@, BalanceProvided(response))]
       IN  IF balance.isNull
             THEN /\ ReturnToLoop(hr)
                  /\ ended' = <<Ended(got, <<"error", "error">>)>>
             ELSE /\ Step(hr, [got EXCEPT
                                 !.pc = "awaitCounterBalance",
                                 !.tradingEquity = balance.equity,
                                 !.made = Append(@, "getWalletBalance:counter")])
                  /\ UNCHANGED <<echoesSeen, ended>>
  /\ UNCHANGED <<probe, env, sink, feed, proc, cfb, delivered, counterOrders,
                 rejection>>

\* the counter account's balance arrives
CounterBalance(hr) ==
  /\ proc.state = "running"
  /\ hr.pc = "awaitCounterBalance"
  /\ \E response \in BalanceResponses :
       LET balance == getBalanceOfCoin(response)
           got == [hr EXCEPT !.fetched = Append(@, BalanceProvided(response))]
       IN  IF balance.isNull
             THEN /\ ReturnToLoop(hr)
                  /\ ended' = <<Ended(got, <<"error", "error">>)>>
             ELSE /\ Step(hr, [got EXCEPT
                                 !.pc = "awaitSymbolInfo",
                                 !.counterEquity = balance.equity,
                                 !.made = Append(@, "getInstrumentsInfo")])
                  /\ UNCHANGED <<echoesSeen, ended>>
  /\ UNCHANGED <<probe, env, sink, feed, proc, cfb, delivered, counterOrders,
                 rejection>>

\* what placeCounterOrder has in hand when it is about to submit
Submission(orderData, tradingEquity, counterEquity, lotSizeFilter) ==
  LET qty == finalCounterQty(orderData, tradingEquity, counterEquity, lotSizeFilter)
      qtyString == counterQtyString(qty, lotSizeFilter)
  IN  [orderData |-> orderData, tradingEquity |-> tradingEquity,
       counterEquity |-> counterEquity, lotSizeFilter |-> lotSizeFilter,
       finalCounterQty |-> qty, order |-> counterOrder(orderData, qtyString)]

\* The instrument lookup settles.  A failed lookup, or a toFixed() that
\* throws, ends placeCounterOrder with an exception; otherwise the quantity
\* is sized, the order built and announced, and (unless the announcement
\* suspends) submitted.
SymbolInfo(hr) ==
  /\ proc.state = "running"
  /\ hr.pc = "awaitSymbolInfo"
  /\ \E response \in SymbolInfoResponses :
       LET got == getSymbolInfo(response)
           sub == Submission(hr.cur, hr.tradingEquity, hr.counterEquity,
                             got.info[1].lotSizeFilter)
           at == [hr EXCEPT !.pending = <<sub>>,
                            !.tradingEquity = Zero, !.counterEquity = Zero]
       IN  IF got.threw
             THEN /\ RejectListener(hr, "getSymbolInfo")
                  /\ UNCHANGED counterOrders
           ELSE IF sub.order.qty = RangeError
             THEN /\ RejectListener(hr, "toFixed")
                  /\ UNCHANGED counterOrders
           ELSE IF TelegramOn
             THEN /\ Step(hr, [at EXCEPT !.pc = "awaitPlacingNotify",
                                         !.made = Append(@, "sendMessage:placing")])
                  /\ UNCHANGED <<proc, counterOrders, rejection>>
           ELSE /\ Step(hr, [at EXCEPT !.pc = "awaitSubmit",
                                       !.made = Append(@, "submitOrder")])
                /\ counterOrders' = counterOrders \cup {EchoEvent(sub.order)}
                /\ UNCHANGED <<proc, rejection>>
  /\ UNCHANGED <<probe, env, sink, feed, cfb, delivered, echoesSeen, ended>>

\* sendTelegramMessage (placing) settles, whether it succeeded or not; the
\* order is submitted
PlacingNotified(hr) ==
  /\ proc.state = "running"
  /\ hr.pc = "awaitPlacingNotify"
  /\ \E sent \in SinkOutcomes :
       IF sendTelegramMessage(sent).threw
         THEN /\ RejectListener(hr, "sendTelegramMessage")
              /\ UNCHANGED counterOrders
         ELSE /\ Step(hr, [hr EXCEPT !.pc = "awaitSubmit",
                                     !.made = Append(@, "submitOrder")])
              /\ counterOrders' = counterOrders \cup {EchoEvent(hr.pending[1].order)}
              /\ UNCHANGED <<proc, rejection>>
  /\ UNCHANGED <<probe, env, sink, feed, cfb, delivered, echoesSeen, ended>>

\* submitOrder settles and its outcome is interpreted
SubmitResult(hr) ==
  /\ proc.state = "running"
  /\ hr.pc = "awaitSubmit"
  /\ \E response \in SubmitResponses :
       LET outcome == submitOutcome(response)
           at == [hr EXCEPT !.pending = << >>, !.response = <<response>>]
       IN  IF outcome.notify = "none" \/ ~TelegramOn
             THEN /\ ReturnToLoop(hr)
                  /\ ended' = <<Ended(at, outcome.levels)>>
           ELSE IF outcome.notify = "placed"
             THEN /\ Step(hr, [at EXCEPT !.pc = "awaitPlacedNotify",
                                         !.made = Append(@, "sendMessage:placed")])
                  /\ UNCHANGED <<echoesSeen, ended>>
           ELSE /\ Step(hr, [at EXCEPT !.pc = "awaitErrorNotify",
                                       !.made = Append(@, "sendMessage:error")])
                /\ UNCHANGED <<echoesSeen, ended>>
  /\ UNCHANGED <<probe, env, sink, feed, proc, cfb, delivered, counterOrders,
                 rejection>>

\* sendTelegramMessage (order placed) settles; placeCounterOrder returns
PlacedNotified(hr) ==
  /\ proc.state = "running"
  /\ hr.pc = "awaitPlacedNotify"
  /\ \E sent \in SinkOutcomes :
       IF sendTelegramMessage(sent).threw
         THEN /\ RejectListener(hr, "sendTelegramMessage")
              /\ UNCHANGED <<echoesSeen, ended>>
         ELSE /\ ReturnToLoop(hr)
              /\ ended' = <<Ended(hr, submitOutcome(hr.response[1]).levels)>>
              /\ UNCHANGED <<proc, rejection>>
  /\ UNCHANGED <<probe, env, sink, feed, cfb, delivered, counterOrders>>

\* sendTelegramMessage (error placing order) settles; placeCounterOrder returns
ErrorNotified(hr) ==
  /\ proc.state = "running"
  /\ hr.pc = "awaitErrorNotify"
  /\ \E sent \in SinkOutcomes :
       IF sendTelegramMessage(sent).threw
         THEN /\ RejectListener(hr, "sendTelegramMessage")
              /\ UNCHANGED <<echoesSeen, ended>>
         ELSE /\ ReturnToLoop(hr)
              /\ ended' = <<Ended(hr, submitOutcome(hr.response[1]).levels)>>
              /\ UNCHANGED <<proc, rejection>>
  /\ UNCHANGED <<probe, env, sink, feed, cfb, delivered, counterOrders>>

Next ==
  \/ Startup
  \/ CheckFetchTrading
  \/ CheckFetchCounter
  \/ Sigint
  \/ Update
  \/ \E hr \in BagToSet(handlers) : DetectedNotified(hr)
  \/ \E hr \in BagToSet(handlers) : TradingBalance(hr)
  \/ \E hr \in BagToSet(handlers) : CounterBalance(hr)
  \/ \E hr \in BagToSet(handlers) : SymbolInfo(hr)
  \/ \E hr \in BagToSet(handlers) : PlacingNotified(hr)
  \/ \E hr \in BagToSet(handlers) : SubmitResult(hr)
  \/ \E hr \in BagToSet(handlers) : PlacedNotified(hr)
  \/ \E hr \in BagToSet(handlers) : ErrorNotified(hr)

Spec == Init /\ [][Next]_vars

\* The process with the notification channel down: every delivery fails.
InitSinkDown ==
  /\ probe = [fn |-> "none"]
  /\ env \in Envs
  /\ sink = "down"
  /\ feed \in Feeds
  /\ proc = Starting
  /\ cfb = "idle"
  /\ handlers = EmptyBag
  /\ delivered = 0
  /\ counterOrders = {}
  /\ echoesSeen = {}
  /\ rejection = << >>
  /\ ended = << >>

SpecSinkDown == InitSinkDown /\ [][Next]_vars

\* ------------------------------------------------------------------------
\* Specifications of single calls: Init draws the arguments, the one action
\* applies the function.  The process does not run in them.
\* ------------------------------------------------------------------------

ProcessIdle ==
  /\ env = {}
  /\ sink = "unreliable"
  /\ feed = {}
  /\ proc = Starting
  /\ cfb = "idle"
  /\ handlers = EmptyBag
  /\ delivered = 0
  /\ counterOrders = {}
  /\ echoesSeen = {}
  /\ rejection = << >>
  /\ ended = << >>

processVars == <<env, sink, feed, proc, cfb, handlers, delivered,
                 counterOrders, echoesSeen, rejection, ended>>

OrderStatuses ==
  { "New", "PartiallyFilled", "Filled", "Created", "Cancelled", "Rejected",
    "Untriggered", "Triggered", "Deactivated", "PartiallyFilledCanceled" }

CreateTypes ==
  { "CreateByUser", "CreateByStopLoss", "CreateByTakeProfit", "CreateByLiq" }

OrderLinkIds ==
  { << >>,
    <<"m", "y">>,
    CounterPrefix,
    CounterPrefix \o <<"a", "b", "c", "1", "2", "3">>,
    <<"c", "o", "u", "n", "t", "e", "r">>,
    <<"C", "o", "u", "n", "t", "e", "r", "_", "a">>,
    <<"x">> \o CounterPrefix }

ClassifierEvents ==
  { Event(<<"a">>, l, st, ct, "Buy", "Limit", Dec(10, 1), Dec(0, 1),
          EmptyText, EmptyText) :
      l \in OrderLinkIds, st \in OrderStatuses, ct \in CreateTypes }

InitClassify ==
  /\ probe \in { [fn |-> "respondToOrder", orderData |-> e,
                  done |-> FALSE, result |-> FALSE] : e \in ClassifierEvents }
  /\ ProcessIdle

Classify ==
  /\ ~probe.done
  /\ probe' = [probe EXCEPT !.done = TRUE,
                            !.result = respondToOrder(probe.orderData)]
  /\ UNCHANGED processVars

SpecClassify == InitClassify /\ [][Classify]_vars

\* -- counter-order construction

Prices == { EmptyText, Dec(10, 1), Dec(105, 10) }

TransformEvents ==
  { [Event(<<"a">>, << >>, "New", "CreateByUser", side, ot, p, Dec(500, 1), tp, sl)
       EXCEPT !.positionIdx = idx, !.timeInForce = tif] :
      side \in {"Buy", "Sell"}, ot \in {"Limit", "Market"}, p \in Prices,
      tp \in {EmptyText, Dec(12, 1)}, sl \in {EmptyText, Dec(9, 1)},
      idx \in {0, 1, 2}, tif \in {"GTC", "IOC", "PostOnly"} }

QtyStrings == { [k |-> "dec", n |-> 5, d |-> 10], [k |-> "dec", n |-> 100, d |-> 1] }

InitTransform ==
  /\ probe \in { [fn |-> "counterOrder", orderData |-> e, qtyString |-> q,
                  done |-> FALSE, result |-> << >>] :
                   e \in TransformEvents, q \in QtyStrings }
  /\ ProcessIdle

Transform ==
  /\ ~probe.done
  /\ probe' = [probe EXCEPT
                 !.done = TRUE,
                 !.result = <<counterOrder(probe.orderData, probe.qtyString)>>]
  /\ UNCHANGED processVars

SpecTransform == InitTransform /\ [][Transform]_vars

\* -- sizing

MaxAmount == 3       \* equities, executed value, minimum notional: 0..MaxAmount
MaxPrice == 2        \* prices: none, or 1..MaxPrice
MaxLotHalves == 3    \* quantity limits: 1/2 .. MaxLotHalves/2

Amounts == { Fin(k, 1) : k \in 0..MaxAmount }

SizingEvents ==
  { Event(<<"a">>, << >>, "New", "CreateByUser", "Buy", ot, p, v,
          EmptyText, EmptyText) :
      ot \in {"Limit", "Market"},
      p \in {EmptyText} \cup { Dec(k, 1) : k \in 1..MaxPrice },
      v \in { Dec(k, 1) : k \in 0..MaxAmount } }

QtySteps == { Dec(5, 10), Dec(1, 1), Dec(4, 1) }

\* the filters with 0 < minOrderQty <= maxMktOrderQty <= maxOrderQty, qtyStep > 0
SizingLotSizeFilters ==
  { LotSizeFilter(Dec(5 * mx, 10), Dec(5 * mn, 10), st, Dec(5 * mk, 10), Dec(nv, 1)) :
      mx \in 1..MaxLotHalves, mn \in 1..MaxLotHalves, mk \in 1..MaxLotHalves,
      st \in QtySteps, nv \in 0..MaxAmount }

InitSize ==
  /\ probe \in { [fn |-> "finalCounterQty", orderData |-> e,
                  tradingEquity |-> te, counterEquity |-> ce,
                  lotSizeFilter |-> f, done |-> FALSE, result |-> << >>] :
                   e \in SizingEvents, te \in Amounts, ce \in Amounts,
                   f \in { g \in SizingLotSizeFilters :
                             /\ JsLe(ToNumber(g.minOrderQty), ToNumber(g.maxMktOrderQty))
                             /\ JsLe(ToNumber(g.maxMktOrderQty), ToNumber(g.maxOrderQty)) } }
  /\ ProcessIdle

Size ==
  /\ ~probe.done
  /\ probe' = [probe EXCEPT
                 !.done = TRUE,
                 !.result =
                   LET f == probe.lotSizeFilter
                       step == ToNumber(f.qtyStep)
                       initial == initialCounterQty(probe.orderData, probe.tradingEquity,
                                                    probe.counterEquity)
                       stepped == steppedCounterQty(initial, step)
                       bounded == boundedCounterQty(stepped, ToNumber(f.minOrderQty),
                                                    ToNumber(f.maxOrderQty))
                       market == marketAdjustedCounterQty(probe.orderData, bounded,
                                                          ToNumber(f.maxMktOrderQty))
                       adjusted == minNotionalAdjustedCounterQty(
                                     probe.orderData, market,
                                     ToNumber(f.minNotionalValue), step)
                       qty == finalCounterQty(probe.orderData, probe.tradingEquity,
                                              probe.counterEquity, f)
                   IN  <<[steppedCounterQty |-> stepped,
                          marketAdjustedCounterQty |-> market,
                          minNotionalAdjustedCounterQty |-> adjusted,
                          finalCounterQty |-> qty,
                          counterQtyString |-> counterQtyString(qty, f)]>>]
  /\ UNCHANGED processVars

SpecSize == InitSize /\ [][Size]_vars

\* -- serialising

MaxMultiple == 6     \* quantities: 1 .. MaxMultiple steps

SerialSteps ==
  { Dec(1, 1000), Dec(1, 100), Dec(1, 10), Dec(25, 100), Dec(5, 10),
    Dec(1, 1), Dec(2, 1), Dec(10, 1), Dec(100, 1) }

InitSerialize ==
  /\ probe \in { [fn |-> "counterQtyString",
                  finalCounterQty |-> JsMul(Fin(k, 1), ToNumber(st)),
                  lotSizeFilter |-> LotSizeFilter(Dec(1000, 1), st, st, Dec(1000, 1),
                                                  Dec(0, 1)),
                  done |-> FALSE, result |-> << >>] :
                   st \in SerialSteps, k \in 1..MaxMultiple }
  /\ ProcessIdle

Serialize ==
  /\ ~probe.done
  /\ probe' = [probe EXCEPT
                 !.done = TRUE,
                 !.result =
                   <<[digits |-> getDecimalPlaces(ToNumber(probe.lotSizeFilter.qtyStep)),
                      text |-> counterQtyString(probe.finalCounterQty,
                                                probe.lotSizeFilter)]>>]
  /\ UNCHANGED processVars

SpecSerialize == InitSerialize /\ [][Serialize]_vars

\* ------------------------------------------------------------------------
\* Properties
\* ------------------------------------------------------------------------

\* the link identifier begins with the eight characters c o u n t e r _
HasCounterTag(linkId) ==
  /\ Len(linkId) >= 8
  /\ linkId[1] = "c" /\ linkId[2] = "o" /\ linkId[3] = "u" /\ linkId[4] = "n"
  /\ linkId[5] = "t" /\ linkId[6] = "e" /\ linkId[7] = "r" /\ linkId[8] = "_"

\* C1: respondToOrder answers true exactly for the events whose status is
\* New, Filled, PartiallyFilled or Created, whose createType is CreateByUser
\* and whose link identifier does not begin with counter_; false for all
\* others.
C1_ClassifierIff ==
  (probe.fn = "respondToOrder" /\ probe.done) =>
    (probe.result <=>
       /\ probe.orderData.orderStatus \in {"New", "Filled", "PartiallyFilled", "Created"}
       /\ probe.orderData.createType = "CreateByUser"
       /\ ~HasCounterTag(probe.orderData.orderLinkId))

\* a user's New order whose link identifier is counter_abc123 was classified
C1_Witness ==
  /\ probe.fn = "respondToOrder" /\ probe.done
  /\ probe.orderData.orderStatus = "New"
  /\ probe.orderData.createType = "CreateByUser"
  /\ probe.orderData.orderLinkId = CounterPrefix \o <<"a", "b", "c", "1", "2", "3">>
  /\ ~probe.result

\* the suspended invocations, as a set
Invocations == BagToSet(handlers)

\* C2: no invocation of the listener makes a call (balance fetch,
\* notification, submission) for an event of a counter-order, that is an
\* event tagged counter_; every request on its way to submitOrder carries
\* the tag; and the update events of the counter-orders are refused by the
\* classifier.
C2_NoFeedbackLoop ==
  /\ \A hr \in Invocations :
       Len(hr.made) > 0 =>
         /\ ~HasCounterTag(hr.cur.orderLinkId)
         /\ hr.cur \notin counterOrders
  /\ \A hr \in Invocations :
       hr.pending # << >> => HasCounterTag(hr.pending[1].order.orderLinkId)
  /\ \A e \in counterOrders \cup echoesSeen :
       HasCounterTag(e.orderLinkId) /\ ~respondToOrder(e)

\* the update event of a counter-order, New and created by the user's key,
\* has been delivered and classified
C2_Witness ==
  \E e \in echoesSeen :
    /\ e \in counterOrders
    /\ e.orderStatus = "New" /\ e.createType = "CreateByUser"

\* -- sizing

SizedQty == probe.result[1].finalCounterQty

SizingPrice == ToNumber(probe.orderData.price)

SizingMin == ToNumber(probe.lotSizeFilter.minOrderQty)

SizingMax == ToNumber(probe.lotSizeFilter.maxOrderQty)

SizingMaxMkt == ToNumber(probe.lotSizeFilter.maxMktOrderQty)

SizingStep == ToNumber(probe.lotSizeFilter.qtyStep)

SizingMinNotional == ToNumber(probe.lotSizeFilter.minNotionalValue)

\* a sizing was done on positive equities, executed value and price, under a
\* filter with 0 < minOrderQty <= maxMktOrderQty <= maxOrderQty, qtyStep > 0
SizedOnValidInputs ==
  /\ probe.fn = "finalCounterQty" /\ probe.done
  /\ JsLt(Zero, probe.tradingEquity) /\ JsLt(Zero, probe.counterEquity)
  /\ JsLt(Zero, ParseFloat(probe.orderData.cumExecValue))
  /\ JsLt(Zero, SizingPrice)
  /\ JsLt(Zero, SizingMin) /\ JsLe(SizingMin, SizingMaxMkt)
  /\ JsLe(SizingMaxMkt, SizingMax) /\ JsLt(Zero, SizingStep)

\* the three properties claimed of the final quantity
SizedWithinContract ==
  /\ IsMultipleOf(SizedQty, SizingStep)
  /\ JsLe(SizingMin, SizedQty) /\ JsLe(SizedQty, SizingMax)
  /\ SizedQty = SizingMax \/ JsLe(SizingMinNotional, JsMul(SizedQty, SizingPrice))

\* C3 as stated: for every valid filter and positive inputs the final
\* quantity is a multiple of qtyStep, lies in [minOrderQty, maxOrderQty] and,
\* unless it is maxOrderQty, has a notional of at least minNotionalValue.
C3_AsStated == SizedOnValidInputs => SizedWithinContract

\* the three quantity limits of the filter are multiples of its step
LimitsOnStep ==
  /\ IsMultipleOf(SizingMin, SizingStep)
  /\ IsMultipleOf(SizingMaxMkt, SizingStep)
  /\ IsMultipleOf(SizingMax, SizingStep)

\* C3 amended: the same, for the filters whose minOrderQty, maxMktOrderQty
\* and maxOrderQty are themselves multiples of qtyStep.
C3_OnStepLimits == (SizedOnValidInputs /\ LimitsOnStep) => SizedWithinContract

\* a sizing under on-step limits where the minimum-notional adjustment
\* raised the quantity strictly between the limits
C3_Witness ==
  /\ SizedOnValidInputs /\ LimitsOnStep
  /\ JsLt(JsMul(SizingMin, SizingPrice), SizingMinNotional)
  /\ JsLt(SizingMin, SizedQty) /\ JsLt(SizedQty, SizingMax)

\* -- the running process

\* C4 as stated: no counter-order is submitted in a mirroring operation that
\* found the trading account's equity to be 0 (here with the counter
\* account's equity and the event's price positive, so that nothing else is
\* amiss).
C4_ZeroEquityNotSubmitted ==
  \A hr \in Invocations :
    (/\ hr.pc = "awaitSubmit"
     /\ hr.pending[1].counterEquity # Zero
     /\ ToNumber(hr.cur.price) # Zero)
      => hr.pending[1].tradingEquity # Zero

\* C5 as stated: no counter-order is submitted for an event whose price,
\* the reference price of the sizing, is 0 (here with both equities
\* positive, so that nothing else is amiss).
C5_ZeroPriceNotSubmitted ==
  \A hr \in Invocations :
    (/\ hr.pc = "awaitSubmit"
     /\ hr.pending[1].tradingEquity # Zero
     /\ hr.pending[1].counterEquity # Zero)
      => ToNumber(hr.cur.price) # Zero

\* C6 as stated: a failed instrument lookup does not escape the listener
\* and leaves no event of the batch unreached.
C6_LookupFailureContained ==
  \A i \in 1..Len(rejection) : rejection[i].cause # "getSymbolInfo"

\* the invocations between placeCounterOrder's first balance fetch and the
\* interpretation of the submission result
InFlight ==
  LET S == { hr \in Invocations :
               hr.pc \in {"awaitTradingBalance", "awaitCounterBalance",
                          "awaitSymbolInfo", "awaitPlacingNotify", "awaitSubmit"} }
  IN  BagCardinality([hr \in S |-> CopiesIn(hr, handlers)])

\* C7 as stated: at most one mirroring operation is in flight.
C7_AtMostOneInFlight == InFlight <= 1

\* C8 as stated: the process ends only on a configuration error found at
\* startup or on SIGINT.
C8_ExitsOnlyOnConfigOrSigint ==
  proc.state = "exited" => proc.cause \in {"config", "SIGINT"}

\* -- counter-order construction

Built == probe.result[1]

\* C9: the counter-order's side is the inverse of the event's side (Buy for
\* Sell, Sell for Buy), inverting it again gives the event's side, and its
\* take-profit is the event's stop-loss, its stop-loss the event's
\* take-profit.
C9_SideAndTargetsInverted ==
  (probe.fn = "counterOrder" /\ probe.done) =>
    /\ probe.orderData.side = "Buy" => Built.side = "Sell"
    /\ probe.orderData.side = "Sell" => Built.side = "Buy"
    /\ counterSide(Built) = probe.orderData.side
    /\ Built.takeProfit = probe.orderData.stopLoss
    /\ Built.stopLoss = probe.orderData.takeProfit

\* a Buy with a take-profit and no stop-loss was transformed
C9_Witness ==
  /\ probe.fn = "counterOrder" /\ probe.done
  /\ probe.orderData.side = "Buy"
  /\ probe.orderData.takeProfit = Dec(12, 1)
  /\ probe.orderData.stopLoss = EmptyText
  /\ Built.side = "Sell"

\* C10: order type, time-in-force and position index are the event's;
\* reduceOnly and closeOnTrigger are false; the order has a price exactly
\* when its type is Limit, and then it is the event's price.
C10_CopiedFieldsAndPrice ==
  (probe.fn = "counterOrder" /\ probe.done) =>
    /\ Built.orderType = probe.orderData.orderType
    /\ Built.timeInForce = probe.orderData.timeInForce
    /\ Built.positionIdx = probe.orderData.positionIdx
    /\ Built.reduceOnly = FALSE
    /\ Built.closeOnTrigger = FALSE
    /\ Built.price.defined <=> probe.orderData.orderType = "Limit"
    /\ probe.orderData.orderType = "Limit" =>
         Built.price.text = probe.orderData.price

\* a Market order whose event carries a price was transformed: the
\* counter-order has none
C10_Witness ==
  /\ probe.fn = "counterOrder" /\ probe.done
  /\ probe.orderData.orderType = "Market"
  /\ probe.orderData.price = Dec(10, 1)
  /\ probe.orderData.timeInForce = "IOC"
  /\ probe.orderData.positionIdx = 2
  /\ ~Built.price.defined

\* -- how a mirroring operation ends

\* the invocation hr is resumed in this step
Resumed(hr) == CopiesIn(hr, handlers') < CopiesIn(hr, handlers)

\* the invocation h appears in this step
Appears(h) == CopiesIn(h, handlers') > CopiesIn(h, handlers)

\* the listener goes on with the first event of hr's remaining batch that
\* is to be mirrored, if there is one
NextEventTaken(hr) ==
  \A i \in 1..Len(hr.rest) :
    (/\ respondToOrder(hr.rest[i])
     /\ \A j \in 1..(i - 1) : ~respondToOrder(hr.rest[j]))
      => \E h \in BagToSet(handlers') :
           /\ Appears(h)
           /\ h.cur = hr.rest[i]
           /\ h.rest = SubSeq(hr.rest, i + 1, Len(hr.rest))

\* the submission of the latest operation that returned was answered with
\* the insufficient-balance code
EndedInsufficient ==
  /\ ended # << >>
  /\ ended[1].response # << >>
  /\ ended[1].response[1].k = "ret"
  /\ ended[1].response[1].retCode = 110007

\* an insufficient-balance answer is logged at warning level, never as an error
C11_WarnedNotError ==
  EndedInsufficient =>
    /\ \E i \in 1..Len(ended[1].levels) : ended[1].levels[i] = "warn"
    /\ \A i \in 1..Len(ended[1].levels) : ended[1].levels[i] # "error"

\* a step that resumes an invocation waiting for submitOrder, or for the
\* notification that follows it, rejects nothing, and either waits for that
\* notification or goes on with the next event of the batch
C11_CompletesAndGoesOn ==
  \A hr \in Invocations :
    (/\ hr.pc \in {"awaitSubmit", "awaitPlacedNotify", "awaitErrorNotify"}
     /\ Resumed(hr)
     /\ proc' = proc)
      => /\ rejection' = rejection
         /\ \/ /\ hr.pc = "awaitSubmit"
               /\ \E h \in BagToSet(handlers') :
                    /\ Appears(h)
                    /\ h.pc \in {"awaitPlacedNotify", "awaitErrorNotify"}
                    /\ h.cur = hr.cur /\ h.rest = hr.rest
            \/ /\ ended' # << >>
               /\ ended'[1].response # << >>
               /\ NextEventTaken(hr)

\* C11: whatever the submission's outcome (code 0, 110007, another code, an
\* exception), placeCounterOrder returns without raising and the listener
\* goes on with the next event of the batch; code 110007 is logged at
\* warning level and never at error level.
C11_SubmissionOutcomeContained ==
  []C11_WarnedNotError /\ [][C11_CompletesAndGoesOn]_vars

\* a submission was answered with 110007 and logged as a warning, and the
\* listener is at work on an event of the feed again
C11_Witness ==
  /\ EndedInsufficient
  /\ ended[1].levels = <<"warn">>
  /\ \E hr \in Invocations : hr.cur \in feed /\ hr.pending = << >> /\ hr.fetched = << >>

\* C12 as stated: a submission answered with the insufficient-balance code
\* is followed by a notification attempt before the operation ends (here
\* with the Telegram bot configured, so that attempts are made at all).
C12_InsufficientNotified ==
  (EndedInsufficient /\ TelegramOn) =>
    \E i \in 1..Len(ended[1].made) :
      /\ ended[1].made[i] = "submitOrder"
      /\ i < Len(ended[1].made)

\* -- the calls of a mirroring operation

\* the exchange calls among the calls made, in the order they were made
ExchangeCalls(made) ==
  SelectSeq(made, LAMBDA c : c \in {"getWalletBalance:trading",
                                    "getWalletBalance:counter",
                                    "getInstrumentsInfo", "submitOrder"})

CallOrder ==
  <<"getWalletBalance:trading", "getWalletBalance:counter",
    "getInstrumentsInfo", "submitOrder">>

IsPrefix(s, t) == Len(s) <= Len(t) /\ SubSeq(t, 1, Len(s)) = s

\* an operation under way: its exchange calls follow the order, each made
\* once; it has met no unavailable balance; it submits only after its own
\* three fetches
C13_UnderWay ==
  \A hr \in Invocations :
    /\ IsPrefix(ExchangeCalls(hr.made), CallOrder)
    /\ \A i \in 1..Len(hr.fetched) : hr.fetched[i]
    /\ Len(hr.fetched) < Len(ExchangeCalls(hr.made)) \/ hr.pc = "awaitDetectedNotify"
    /\ hr.pc = "awaitSubmit" =>
         /\ ExchangeCalls(hr.made) = CallOrder
         /\ hr.fetched = <<TRUE, TRUE>>

\* an operation that returned: the same order; after an unavailable trading
\* balance no further call, after an unavailable counter balance neither the
\* instrument fetch nor the submission
C13_Returned ==
  ended # << >> =>
    LET calls == ExchangeCalls(ended[1].made)
        fetched == ended[1].fetched
    IN  /\ IsPrefix(calls, CallOrder)
        /\ fetched = <<FALSE>> => calls = <<"getWalletBalance:trading">>
        /\ fetched = <<TRUE, FALSE>> =>
             calls = <<"getWalletBalance:trading", "getWalletBalance:counter">>
        /\ fetched \in {<<FALSE>>, <<TRUE, FALSE>>, <<TRUE, TRUE>>}
        /\ fetched = <<TRUE, TRUE>> <=> ended[1].response # << >>
        /\ ended[1].response # << >> => calls = CallOrder

\* a step that resumes an invocation waiting for a balance rejects nothing
C13_BalanceStepRaisesNothing ==
  \A hr \in Invocations :
    (/\ hr.pc \in {"awaitTradingBalance", "awaitCounterBalance"}
     /\ Resumed(hr)
     /\ proc' = proc)
      => /\ rejection' = rejection
         /\ \/ \E h \in BagToSet(handlers') :
                 /\ Appears(h) /\ h.cur = hr.cur /\ h.rest = hr.rest
                 /\ Len(h.fetched) = Len(hr.fetched) + 1
            \/ /\ ended' # << >>
               /\ ended'[1].response = << >>
               /\ NextEventTaken(hr)

\* C13: within one mirroring operation the exchange calls are made in the
\* order trading balance, counter balance, instrument, submission, each at
\* most once and each by that operation itself; an unavailable trading
\* balance ends the operation before any later call, an unavailable counter
\* balance before the instrument fetch and the submission, and in both
\* cases nothing is raised.
C13_CallOrderAndFailFast ==
  []C13_UnderWay /\ []C13_Returned /\ [][C13_BalanceStepRaisesNothing]_vars

\* an operation returned after an unavailable counter balance, having made
\* the two balance fetches and nothing else at the exchange
C13_Witness ==
  /\ ended # << >>
  /\ ended[1].fetched = <<TRUE, FALSE>>
  /\ ExchangeCalls(ended[1].made) =
       <<"getWalletBalance:trading", "getWalletBalance:counter">>

\* -- proportional sizing

SizingNotional ==
  Fin(probe.orderData.cumExecValue.n, probe.orderData.cumExecValue.d)

\* counterEquity * (originalNotional / primaryEquity) / referencePrice
ProportionalQty ==
  JsDiv(JsMul(probe.counterEquity, JsDiv(SizingNotional, probe.tradingEquity)),
        SizingPrice)

\* that quantity rounded to the nearest multiple of qtyStep
RoundedQty == JsMul(MathRound(JsDiv(ProportionalQty, SizingStep)), SizingStep)

\* the rounded quantity needs no adjustment: it is within the limits, within
\* the market limit for a Market order, and its notional is large enough
RoundedQtyAcceptable ==
  /\ JsLe(SizingMin, RoundedQty) /\ JsLe(RoundedQty, SizingMax)
  /\ probe.orderData.orderType = "Market" => JsLe(RoundedQty, SizingMaxMkt)
  /\ JsLe(SizingMinNotional, JsMul(RoundedQty, SizingPrice))

\* scenario 1: equities 10000 and 1000, notional 500, price 100, step 0.1,
\* min 0.1, max 100, whatever the market limit and the minimum notional
\* (up to the order's own 50)
Scenario1Sized ==
  \A mk \in {Dec(1, 10), Dec(50, 1), Dec(100, 1)}, nv \in {Dec(0, 1), Dec(5, 1), Dec(50, 1)} :
    LET order == Event(<<"a">>, << >>, "New", "CreateByUser", "Buy", "Limit",
                       Dec(100, 1), Dec(500, 1), EmptyText, EmptyText)
        filter == LotSizeFilter(Dec(100, 1), Dec(1, 10), Dec(1, 10), mk, nv)
        qty == finalCounterQty(order, Fin(10000, 1), Fin(1000, 1), filter)
    IN  /\ qty = Fin(5, 10)
        /\ counterQtyString(qty, filter) = [k |-> "dec", n |-> 5, d |-> 10]

\* C14: when counterEquity * (originalNotional / primaryEquity) /
\* referencePrice, rounded to the nearest multiple of qtyStep, is within
\* [minOrderQty, maxOrderQty] (and within maxMktOrderQty for a Market order)
\* and its notional is at least minNotionalValue, the final quantity is that
\* rounded value; for scenario 1 it is 0.5.
C14_ProportionalUnchanged ==
  /\ (SizedOnValidInputs /\ RoundedQtyAcceptable) => SizedQty = RoundedQty
  /\ Scenario1Sized

\* a Market order was sized to the rounded proportional quantity, which the
\* rounding had moved off the exact proportion and which lies below the
\* market limit
C14_Witness ==
  /\ SizedOnValidInputs /\ RoundedQtyAcceptable
  /\ probe.orderData.orderType = "Market"
  /\ RoundedQty # ProportionalQty
  /\ JsLt(RoundedQty, SizingMaxMkt)
  /\ SizedQty = RoundedQty

\* -- the minimum-notional repair

\* the quantity after the bounds clamp and the market cap
CappedQty == probe.result[1].marketAdjustedCounterQty

\* the quantity after the minimum-notional repair
RepairedQty == probe.result[1].minNotionalAdjustedCounterQty

\* a sizing at a positive price whose capped quantity has a notional below
\* minNotionalValue
RepairNeeded ==
  /\ probe.fn = "finalCounterQty" /\ probe.done
  /\ JsLt(Zero, SizingPrice)
  /\ JsLt(JsMul(CappedQty, SizingPrice), SizingMinNotional)

\* q is the smallest multiple of qtyStep whose notional is at least
\* minNotionalValue: one step less has too small a notional
SmallestSufficient(q) ==
  /\ IsMultipleOf(q, SizingStep)
  /\ JsLe(SizingMinNotional, JsMul(q, SizingPrice))
  /\ LET k == (q.n * SizingStep.d) \div (q.d * SizingStep.n)
     IN  /\ k >= 1
         /\ JsLt(JsMul(JsMul(Fin(k - 1, 1), SizingStep), SizingPrice),
                 SizingMinNotional)

\* scenario 2: quantity 0.4 at price 10 (notional 4), minNotional 5, step 1
Scenario2Repaired ==
  minNotionalAdjustedCounterQty(
    Event(<<"a">>, << >>, "New", "CreateByUser", "Buy", "Limit",
          Dec(10, 1), Dec(500, 1), EmptyText, EmptyText),
    Fin(4, 10), Fin(5, 1), Fin(1, 1)) = Fin(1, 1)

C16_SerializedExactly ==
  (probe.fn = "counterQtyString" /\ probe.done) =>
    /\ probe.result[1].digits.k = "int"
    /\ probe.result[1].digits.v >= 0
    /\ probe.result[1].text.k = "dec"
    /\ Fin(probe.result[1].text.n, probe.result[1].text.d) = probe.finalCounterQty

\* -- a failing notification channel

\* the notifications among the calls made
Notifications(made) ==
  SelectSeq(made, LAMBDA c : c \in {"sendMessage:detected", "sendMessage:placing",
                                    "sendMessage:placed", "sendMessage:error"})

\* no listener invocation was rejected because a notification failed
C17_NotPropagated ==
  \A i \in 1..Len(rejection) : rejection[i].cause # "sendTelegramMessage"

\* an operation that submitted made all four exchange calls and logged and
\* announced the answer as the answer alone demands
C17_Interpreted ==
  (ended # << >> /\ ended[1].response # << >>) =>
    LET response == ended[1].response[1]
        after == IF ~TelegramOn THEN << >>
                 ELSE SubSeq(Notifications(ended[1].made), 3,
                             Len(Notifications(ended[1].made)))
    IN  /\ ExchangeCalls(ended[1].made) = CallOrder
        /\ TelegramOn =>
             SubSeq(Notifications(ended[1].made), 1, 2) =
               <<"sendMessage:detected", "sendMessage:placing">>
        /\ response.k = "throw" =>
             /\ ended[1].levels = <<"error">>
             /\ TelegramOn => after = <<"sendMessage:error">>
        /\ (response.k = "ret" /\ response.retCode = 110007) =>
             /\ ended[1].levels = <<"warn">>
             /\ after = << >>
        /\ (response.k = "ret" /\ response.retCode # 110007) =>
             /\ ended[1].levels = <<"info", "info", "info">>
             /\ TelegramOn => after = <<"sendMessage:placed">>

\* a step that resumes an invocation waiting for a notification made before
\* the submission goes on to the next call of the operation
C17_GoesOnAfterNotify ==
  \A hr \in Invocations :
    (/\ hr.pc \in {"awaitDetectedNotify", "awaitPlacingNotify"}
     /\ Resumed(hr)
     /\ proc' = proc)
      => \E h \in BagToSet(handlers') :
           /\ Appears(h)
           /\ h.cur = hr.cur /\ h.rest = hr.rest /\ h.pending = hr.pending
           /\ hr.pc = "awaitDetectedNotify" =>
                /\ h.pc = "awaitTradingBalance"
                /\ h.made = Append(hr.made, "getWalletBalance:trading")
           /\ hr.pc = "awaitPlacingNotify" =>
                /\ h.pc = "awaitSubmit"
                /\ h.made = Append(hr.made, "submitOrder")

\* C17: with every notification attempt failing, no failure is propagated:
\* each operation whose fetches succeed submits its counter-order, and the
\* answer is logged and announced exactly as the answer demands.
C17_SinkFailureContained ==
  []C17_NotPropagated /\ []C17_Interpreted /\ [][C17_GoesOnAfterNotify]_vars

\* with the channel down and the bot configured, an operation submitted, was
\* answered with code 0 and returned after its third failed notification
C17_Witness ==
  /\ sink = "down" /\ TelegramOn
  /\ ended # << >> /\ ended[1].response # << >>
  /\ ended[1].response[1].k = "ret" /\ ended[1].response[1].retCode = 0
  /\ Len(Notifications(ended[1].made)) = 3
  /\ rejection = << >>

\* -- the market-order limit

\* C18 as stated: for a Market order, positive inputs and a valid filter,
\* the final quantity does not exceed maxMktOrderQty (here for the filters
\* whose limits are multiples of the step, so that nothing else is amiss).
C18_MarketCapKept ==
  (SizedOnValidInputs /\ LimitsOnStep /\ probe.orderData.orderType = "Market") =>
    JsLe(SizedQty, SizingMaxMkt)

\* -- the notification of a placed order

\* C19 as stated: an 'Order placed' notification is sent only for a
\* submission the exchange answered with result code 0.
C19_PlacedOnlyWhenAccepted ==
  /\ \A hr \in Invocations :
       hr.pc = "awaitPlacedNotify" =>
         hr.response[1].k = "ret" /\ hr.response[1].retCode = 0
  /\ (ended # << >> /\ ended[1].response # << >>) =>
       ((\E i \in 1..Len(ended[1].made) : ended[1].made[i] = "sendMessage:placed")
          => ended[1].response[1].k = "ret" /\ ended[1].response[1].retCode = 0)

\* -- the link identifier

\* events of several orders at several points of their lives
LinkIdSamples ==
  { [LimitOrderEvent EXCEPT !.orderId = id, !.orderStatus = st,
                            !.orderLinkId = l, !.side = sd] :
      id \in { <<"a">>, <<"b">>, <<"a", "b">>, <<"1", "_", "2">> },
      st \in {"New", "PartiallyFilled", "Filled"},
      l \in { << >>, <<"m", "y">> },
      sd \in {"Buy", "Sell"} }

\* two events have the same link identifier exactly when they have the same
\* order identifier, and then it is counter_ followed by that identifier
LinkIdByOrderIdAlone ==
  \A e1 \in LinkIdSamples, e2 \in LinkIdSamples :
    /\ counterOrderLinkId(e1) = counterOrderLinkId(e2) <=> e1.orderId = e2.orderId
    /\ counterOrder(e1, [k |-> "dec", n |-> 5, d |-> 10]).orderLinkId =
         <<"c", "o", "u", "n", "t", "e", "r", "_">> \o e1.orderId

\* the invocations that are submitting
Submitting == { hr \in Invocations : hr.pc = "awaitSubmit" }

\* C20: the link identifier of a submitted counter-order is counter_
\* followed by the original order's identifier and depends on nothing else:
\* different order identifiers give different link identifiers, and every
\* submission for the same order, whatever was submitted before, carries
\* the same one.
C20_LinkIdFromOrderId ==
  /\ LinkIdByOrderIdAlone
  /\ \A hr \in Invocations :
       hr.pending # << >> =>
         hr.pending[1].order.orderLinkId =
           <<"c", "o", "u", "n", "t", "e", "r", "_">> \o hr.cur.orderId
  /\ \A h1 \in Submitting, h2 \in Submitting :
       h1.cur.orderId = h2.cur.orderId =>
         h1.pending[1].order.orderLinkId = h2.pending[1].order.orderLinkId

\* the same event was delivered twice and two submissions for it, carrying
\* the same link identifier, are under way at once
C20_Witness ==
  \E h1 \in Submitting :
    /\ \/ CopiesIn(h1, handlers) >= 2
       \/ \E h2 \in Submitting : h2 # h1 /\ h2.cur = h1.cur
    /\ EchoEvent(h1.pending[1].order) \in counterOrders

====
